---- MODULE Spec2Model ----
(***************************************************************************)
(* Model of the geocoder decorator pipeline of gittrends-app/geocoder:     *)
(* Cache (pending-map deduplication, negative cache, fire-and-forget       *)
(* writes), Fallback and LoadBalancer.  Every asynchronous suspension      *)
(* point of the TypeScript code (an await, a promise callback) is one      *)
(* action; the synchronous code between two suspension points is atomic,   *)
(* as it is on the single-threaded event loop.                             *)
(***************************************************************************)
EXTENDS Integers, Sequences, FiniteSets, TLC

\* ------------------------------------------------------------------------
\* Bounds of the model
\* ------------------------------------------------------------------------
MaxCalls == 2
MaxFired == 1
MaxStoreFaults == 1
MaxFbCalls == 2
MaxLbCalls == 2
MaxProviders == 3
MaxQueueSize == 1
MaxThCalls == 3
MaxConcurrency == 2
MaxRate == 2
MaxTime == 3
MaxRequests == 4
MaxAttempts == 5

\* ------------------------------------------------------------------------
\* Values
\* ------------------------------------------------------------------------
\* JavaScript values that flow through the decorators
NULL == "null"
UNDEFINED == "undefined"
JsFalse == "false"
Addresses == {"addr1", "addr2"}
Queries == {"q1", "q2"}

\* Errors a provider adapter can reject with
ProviderErrors == {"ProviderError"}

\* `new RequestAbortedError(q)` of errors/index.ts
RequestAbortedError == "RequestAbortedError"

\* A settled promise: a value or an error; NoOutcome while unsettled
NoOutcome == [kind |-> "none", val |-> "none"]
Value(v) == [kind |-> "value", val |-> v]
Error(e) == [kind |-> "error", val |-> e]

\* JavaScript `a ?? b`: b only when a is null or undefined
Nullish(a, b) == IF a \in {NULL, UNDEFINED} THEN b ELSE a

\* JavaScript `a || b`: b when a is falsy (null, undefined, false)
OrElse(a, b) == IF a \in {NULL, UNDEFINED, JsFalse} THEN b ELSE a

\* `signal.reason` of a fired AbortSignal: what `signal.throwIfAborted()`,
\* PQueue's abort race and a fetch given the signal reject with
AbortError == "AbortError"

\* a signal whose aborted flag is never seen set
NeverAborted(sig) == FALSE

\* `options?.signal?.aborted`: a missing signal is never aborted
Aborted(sig) == sig = "aborted"

\* The AbortSignal of a call: absent, present and not fired, fired
Signals == {"none", "live", "aborted"}

\* Cache.search reads the signal only through `options?.signal?.aborted`, so
\* a call without a signal behaves as one whose signal never fires
CacheSignals == {"live", "aborted"}

\* ------------------------------------------------------------------------
\* State of the decorators
\* ------------------------------------------------------------------------
\* Cache
VARIABLES
    store,      \* this.cache: query -> UNDEFINED (absent) | JsFalse | Address
    pending,    \* this.pending: query -> id of the in-flight upstream promise, 0 if none
    calls,      \* the Cache.search calls made so far, in order of issue
    ups,        \* the calls of this.geocoder.search made so far
    writes,     \* this.cache.set calls that have not completed yet
    writeLog    \* number of 'cache write failed' debug lines

cacheVars == <<store, pending, calls, ups, writes, writeLog>>

\* Fallback
VARIABLES
    fcalls      \* the Fallback.search calls made so far, in order of issue; each
                \* records the calls it made to its two geocoders, in order

fbVars == <<fcalls>>

\* LoadBalancer
VARIABLES
    lb,         \* "new" before the constructor ran, then "ready" or "failed"
    lbArg,      \* the `geocoders` argument the constructor was called with
    lbError,    \* what the constructor threw, "none" if nothing
    nprov,      \* this.providers.length
    maxQueue,   \* this.maxQueueSize
    lbPending,  \* provider index -> queue.pending of its PQueue
    lbStats,    \* this.stats
    lreqs       \* the LoadBalancer.search calls made so far, in order of issue;
                \* each records, in order, the provider calls made on its behalf
                \* and what the provider consulted last settled to

lbVars == <<lb, lbArg, lbError, nprov, maxQueue, lbPending, lbStats, lreqs>>

\* Throttler
VARIABLES
    tConc,      \* options.concurrency of the PQueue, 0 before the constructor ran
    tQueue,     \* the jobs waiting in this.queue, in order (queue.size is its length)
    tPending,   \* queue.pending
    treqs       \* the Throttler.search calls made so far, in order of issue, each
                \* with the calls made to the wrapped geocoder, their result,
                \* the stages (queued, running, done) the request went through
                \* and whether it was left waiting by the call that queued it

thVars == <<tConc, tQueue, tPending, treqs>>

\* Rate limiter of the HTTP front door
VARIABLES
    rlMax,      \* `max` of the limiter, NoLimiter before createApp ran
    rlStore,    \* store: client key -> { count, reset }, count 0 when absent
    rlNow,      \* Date.now(), in ticks
    rlReqs      \* the requests the onRequest hook has seen, with its answers

rlVars == <<rlMax, rlStore, rlNow, rlReqs>>

\* Fetch helper
VARIABLES
    ftPc,       \* "idle", "fetching", "waiting" (retry delay) or "done"
    ftTried,    \* what each attempt of the current call ended in, in order
    ftOutcome   \* what the helper's promise settled to

ftVars == <<ftPc, ftTried, ftOutcome>>

vars == <<cacheVars, fbVars, lbVars, thVars, rlVars, ftVars>>

\* ------------------------------------------------------------------------
\* Cache
\* ------------------------------------------------------------------------


CallIds == 1..Len(calls)
UpIds == 1..Len(ups)

\* calls for query q whose promise has not settled
OpenCallsFor(q) == {c \in CallIds : calls[c].q = q /\ calls[c].pc # "done"}

\* the calls whose signal has fired, and the store operations that failed
Fired == {c \in CallIds : calls[c].sig = "aborted"}
StoreFaults == Cardinality({c \in CallIds : calls[c].cached = "failed"}) + writeLog

InitCache ==
    /\ store = [q \in Queries |-> UNDEFINED]
    /\ pending = [q \in Queries |-> 0]
    /\ calls = <<>>
    /\ ups = <<>>
    /\ writes = {}
    /\ writeLog = 0

\* Cache.search, up to the first await: the early abort check and the
\* call of this.cache.get (queries are opaque keys, so the first query that
\* is ever searched is named q1)
CacheSearch(q, sig) ==
    /\ Len(calls) < MaxCalls
    /\ Aborted(sig) => Cardinality(Fired) < MaxFired
    /\ Len(calls) = 0 => q = "q1"
    /\ LET base == [q |-> q, sig |-> sig, cached |-> "unread", promise |-> 0,
                    started |-> FALSE, open |-> OpenCallsFor(q),
                    firedAt |-> IF Aborted(sig) THEN "before" ELSE "never",
                    pc |-> "get", outcome |-> NoOutcome]
       IN  calls' = Append(calls,
                IF Aborted(sig)
                THEN [base EXCEPT !.pc = "done", !.outcome = Error(RequestAbortedError)]
                ELSE base)
    /\ UNCHANGED <<store, pending, ups, writes, writeLog, fbVars, lbVars, thVars, rlVars, ftVars>>

\* this.cache.get(q) reads the store
CacheGet(st, q) == st[q]

CacheGetRead(c) ==
    /\ calls[c].pc = "get"
    /\ calls' = [calls EXCEPT ![c].cached = CacheGet(store, calls[c].q), ![c].pc = "got"]
    /\ UNCHANGED <<store, pending, ups, writes, writeLog, fbVars, lbVars, thVars, rlVars, ftVars>>

\* what a failing store rejects a read or a write with
StoreError == "StoreError"

\* this.cache.get(q) rejects: the await throws inside Cache.search, which has
\* no handler around it, so the promise returned to the caller rejects
CacheGetFail(c) ==
    /\ calls[c].pc = "get"
    /\ StoreFaults < MaxStoreFaults
    /\ calls' = [calls EXCEPT ![c].cached = "failed", ![c].pc = "done",
                              ![c].outcome = Error(StoreError)]
    /\ UNCHANGED <<store, pending, ups, writes, writeLog, fbVars, lbVars, thVars, rlVars, ftVars>>

\* `cached !== undefined`
IsHit(cached) == cached # UNDEFINED

\* `return (cached as Address) ?? null`
HitResult(cached) == Nullish(cached, NULL)

\* a lookup of the pending map that never finds the in-flight promise
PendingGetMiss(p, q) == 0

\* this.pending.get(q)
PendingGet(p, q) == p[q]

\* Cache.search after `await this.cache.get`: hit, join the pending promise,
\* or start the upstream call and register it
CacheGetReturnEffect(c) ==
    /\ calls[c].pc = "got"
    /\ LET q == calls[c].q
           cached == calls[c].cached
           existing == PendingGet(pending, q)
       IN  IF IsHit(cached)
           THEN /\ calls' = [calls EXCEPT ![c].pc = "done",
                                          ![c].outcome = Value(HitResult(cached))]
                /\ UNCHANGED <<store, pending, ups, writes, writeLog>>
           ELSE IF existing # 0
           THEN /\ calls' = [calls EXCEPT ![c].pc = "await", ![c].promise = existing]
                /\ UNCHANGED <<store, pending, ups, writes, writeLog>>
           ELSE /\ ups' = Append(ups, [q |-> q, owner |-> c, state |-> "running",
                                       outcome |-> NoOutcome])
                /\ pending' = [pending EXCEPT ![q] = Len(ups) + 1]
                /\ calls' = [calls EXCEPT ![c].pc = "await", ![c].promise = Len(ups) + 1,
                                          ![c].started = TRUE]
                /\ UNCHANGED <<store, writes, writeLog>>

\* the same, the wrapped geocoder being left unspecified
CacheGetReturn(c) == CacheGetReturnEffect(c) /\ UNCHANGED <<fbVars, lbVars, thVars, rlVars, ftVars>>

\* a then-callback that writes whatever the state of the signal
AlwaysWrites(sig) == TRUE

\* `!options?.signal?.aborted` in the then-callback: the options are those
\* of the call that started the upstream request
ShouldWrite(sig) == ~Aborted(sig)

\* a token that counts as fired as soon as the token of any caller served
\* by upstream call u has fired
AnyCallerSignal(u) ==
    IF \E c \in CallIds : calls[c].promise = u /\ Aborted(calls[c].sig)
    THEN "aborted" ELSE "live"

\* `options?.signal` in the then-callback: the closure holds the options of
\* the call that started upstream call u
StartingSignal(u) == calls[ups[u].owner].sig

\* the value handed to this.cache.set: `address || false`
WriteValue(address) == OrElse(address, JsFalse)

\* the upstream promise resolves and the then-callback runs (addresses are
\* opaque values, so the first one the wrapped geocoder finds is named addr1)
UpstreamResolveEffect(u, v) ==
    /\ ups[u].state = "running"
    /\ v = "addr2" => \E w \in UpIds : ups[w].outcome = Value("addr1")
    /\ ups' = [ups EXCEPT ![u].state = "settled", ![u].outcome = Value(v)]
    /\ writes' = IF ShouldWrite(StartingSignal(u))
                 THEN writes \cup {[u |-> u, q |-> ups[u].q, val |-> WriteValue(v)]}
                 ELSE writes
    /\ UNCHANGED <<store, pending, calls, writeLog>>

UpstreamResolve(u, v) ==
    UpstreamResolveEffect(u, v) /\ UNCHANGED <<fbVars, lbVars, thVars, rlVars, ftVars>>

\* a rejection handled as a not-found: the false sentinel is written
UpstreamRejectCached(u, e) ==
    /\ ups[u].state = "running"
    /\ ups' = [ups EXCEPT ![u].state = "settled", ![u].outcome = Error(e)]
    /\ writes' = writes \cup {[u |-> u, q |-> ups[u].q, val |-> JsFalse]}
    /\ UNCHANGED <<store, pending, calls, writeLog, fbVars, lbVars, thVars, rlVars, ftVars>>

\* the upstream promise rejects: the then-callback is skipped
UpstreamRejectEffect(u, e) ==
    /\ ups[u].state = "running"
    /\ e = AbortError => Aborted(calls[ups[u].owner].sig)
    /\ ups' = [ups EXCEPT ![u].state = "settled", ![u].outcome = Error(e)]
    /\ UNCHANGED <<store, pending, calls, writes, writeLog>>

UpstreamReject(u, e) ==
    UpstreamRejectEffect(u, e) /\ UNCHANGED <<fbVars, lbVars, thVars, rlVars, ftVars>>

\* what the wrapped geocoder rejects with: an error of its own, or the
\* signal's reason when it was handed a signal that has fired since
UpstreamErrors == ProviderErrors \cup {AbortError}

\* a finally-callback that leaves the entry in place
PendingKeep(p, q) == p

\* this.pending.delete(q)
PendingDelete(p, q) == [p EXCEPT ![q] = 0]

\* a promise chain that settles only once the write it issued has ended
UpstreamFinallyAfterWrite(u) ==
    /\ ups[u].state = "settled"
    /\ \A w \in writes : w.u # u
    /\ ups' = [ups EXCEPT ![u].state = "done"]
    /\ pending' = PendingDelete(pending, ups[u].q)
    /\ calls' = [c \in CallIds |->
                    IF calls[c].pc = "await" /\ calls[c].promise = u
                    THEN [calls[c] EXCEPT !.pc = "done", !.outcome = ups[u].outcome]
                    ELSE calls[c]]
    /\ UNCHANGED <<store, writes, writeLog, fbVars, lbVars, thVars, rlVars, ftVars>>

\* the finally-callback runs, then the promise returned to the callers settles
UpstreamFinally(u) ==
    /\ ups[u].state = "settled"
    /\ ups' = [ups EXCEPT ![u].state = "done"]
    /\ pending' = PendingDelete(pending, ups[u].q)
    /\ calls' = [c \in CallIds |->
                    IF calls[c].pc = "await" /\ calls[c].promise = u
                    THEN [calls[c] EXCEPT !.pc = "done", !.outcome = ups[u].outcome]
                    ELSE calls[c]]
    /\ UNCHANGED <<store, writes, writeLog, fbVars, lbVars, thVars, rlVars, ftVars>>

\* a this.cache.set started by a then-callback completes
CacheSetComplete(w) ==
    /\ w \in writes
    /\ store' = [store EXCEPT ![w.q] = w.val]
    /\ writes' = writes \ {w}
    /\ UNCHANGED <<pending, calls, ups, writeLog, fbVars, lbVars, thVars, rlVars, ftVars>>

\* a this.cache.set rejects: the catch-callback logs it
CacheSetFail(w) ==
    /\ w \in writes
    /\ StoreFaults < MaxStoreFaults
    /\ writes' = writes \ {w}
    /\ writeLog' = writeLog + 1
    /\ UNCHANGED <<store, pending, calls, ups, fbVars, lbVars, thVars, rlVars, ftVars>>

\* where a call stands when its signal fires: in the cache lookup, awaiting
\* an upstream call still running, or awaiting one that has settled
Stage(c) ==
    IF calls[c].pc \in {"get", "got"} THEN "lookup"
    ELSE IF ups[calls[c].promise].state = "running" THEN "inflight"
    ELSE "settled"

\* the caller fires the AbortSignal it passed to a call still in progress
CacheAbort(c) ==
    /\ calls[c].pc # "done"
    /\ calls[c].sig = "live"
    /\ Cardinality(Fired) < MaxFired
    /\ calls' = [calls EXCEPT ![c].sig = "aborted", ![c].firedAt = Stage(c)]
    /\ UNCHANGED <<store, pending, ups, writes, writeLog, fbVars, lbVars, thVars, rlVars, ftVars>>

NextCache ==
    \/ \E q \in Queries, sig \in CacheSignals : CacheSearch(q, sig)
    \/ \E c \in CallIds : CacheGetRead(c)
    \/ \E c \in CallIds : CacheGetFail(c)
    \/ \E c \in CallIds : CacheGetReturn(c)
    \/ \E u \in UpIds, v \in Addresses \cup {NULL} : UpstreamResolve(u, v)
    \/ \E u \in UpIds, e \in UpstreamErrors : UpstreamReject(u, e)
    \/ \E u \in UpIds : UpstreamFinally(u)
    \/ \E w \in writes : CacheSetComplete(w)
    \/ \E w \in writes : CacheSetFail(w)
    \/ \E c \in CallIds : CacheAbort(c)


\* ------------------------------------------------------------------------
\* Fallback
\* ------------------------------------------------------------------------

FbIds == 1..Len(fcalls)

InitFallback ==
    /\ fcalls = <<>>

\* the arguments `(q, options)` handed to a wrapped geocoder; the options
\* object is identified by the call that created it, 0 when undefined
DroppedOptions(q, opts) == [q |-> q, opts |-> 0]

SearchArgs(q, opts) == [q |-> q, opts |-> opts]

\* one entry of the log: geocoder g is called with args on behalf of call c
\* while the caller's signal is in state sig
Invocation(g, c, args, sig) ==
    [g |-> g, c |-> c, q |-> args.q, opts |-> args.opts, aborted |-> Aborted(sig)]

\* Fallback.search: calls the primary geocoder with the caller's arguments
FallbackSearch(q, sig) ==
    /\ Len(fcalls) < MaxFbCalls
    /\ LET c == Len(fcalls) + 1
           opts == IF sig = "none" THEN 0 ELSE c
       IN  fcalls' = Append(fcalls,
               [q |-> q, opts |-> opts, sig |-> sig, pc |-> "primary",
                log |-> <<Invocation("primary", c, SearchArgs(q, opts), sig)>>,
                presult |-> NoOutcome, sresult |-> NoOutcome, outcome |-> NoOutcome])
    /\ UNCHANGED <<cacheVars, lbVars, thVars, rlVars, ftVars>>

\* a then-callback that consults the fallback whatever the primary found
AlwaysFallsBack(address) == TRUE

\* `address ?? this.fallback.search(q, options)`: the right-hand side is
\* evaluated only when address is null or undefined
FallsBack(address) == Nullish(address, "rhs") = "rhs"

\* the primary's promise resolves and the then-callback runs
PrimaryResolve(c, v) ==
    /\ fcalls[c].pc = "primary"
    /\ IF FallsBack(v)
       THEN fcalls' = [fcalls EXCEPT ![c].presult = Value(v), ![c].pc = "secondary",
                           ![c].log = Append(@, Invocation("secondary", c,
                               SearchArgs(fcalls[c].q, fcalls[c].opts), fcalls[c].sig))]
       ELSE fcalls' = [fcalls EXCEPT ![c].presult = Value(v), ![c].pc = "done",
                                     ![c].outcome = Value(v)]
    /\ UNCHANGED <<cacheVars, lbVars, thVars, rlVars, ftVars>>

\* the primary's promise rejects: `.then` has no rejection handler, so the
\* promise returned by Fallback.search rejects with the same error
PrimaryReject(c, e) ==
    /\ fcalls[c].pc = "primary"
    /\ fcalls' = [fcalls EXCEPT ![c].presult = Error(e), ![c].pc = "done",
                                ![c].outcome = Error(e)]
    /\ UNCHANGED <<cacheVars, lbVars, thVars, rlVars, ftVars>>

\* the fallback's promise settles: its outcome is the outcome of the search
SecondarySettle(c, o) ==
    /\ fcalls[c].pc = "secondary"
    /\ fcalls' = [fcalls EXCEPT ![c].sresult = o, ![c].pc = "done", ![c].outcome = o]
    /\ UNCHANGED <<cacheVars, lbVars, thVars, rlVars, ftVars>>

\* the caller fires the AbortSignal it passed to a search still in progress
FallbackAbort(c) ==
    /\ fcalls[c].pc # "done"
    /\ fcalls[c].sig = "live"
    /\ fcalls' = [fcalls EXCEPT ![c].sig = "aborted"]
    /\ UNCHANGED <<cacheVars, lbVars, thVars, rlVars, ftVars>>

\* what a geocoder's promise can settle to
Results == Addresses \cup {NULL}
Outcomes == {Value(v) : v \in Results} \cup {Error(e) : e \in ProviderErrors}

NextFallback ==
    \/ \E q \in Queries, sig \in Signals : FallbackSearch(q, sig)
    \/ \E c \in FbIds, v \in Results : PrimaryResolve(c, v)
    \/ \E c \in FbIds, e \in ProviderErrors : PrimaryReject(c, e)
    \/ \E c \in FbIds, o \in Outcomes : SecondarySettle(c, o)
    \/ \E c \in FbIds : FallbackAbort(c)

\* ------------------------------------------------------------------------
\* LoadBalancer
\* ------------------------------------------------------------------------

LbIds == 1..Len(lreqs)

\* the `geocoders` argument of the constructor: a list of n providers,
\* or NoList when the argument is missing
NoList == 0 - 1
GeocoderLists == {NoList} \cup (0..MaxProviders)

\* LoadBalancer.search never inspects the query, it only hands it on
LbQueries == {"q1"}

\* what a provider's promise can settle to: the LoadBalancer never looks into
\* an Address, so one Address stands for all
LbResults == {"addr1", NULL}

\* the options of a LoadBalancer.search call carry a signal: without one,
\* `options.signal?.throwIfAborted()` behaves as with a signal never fired
LbSignals == {"live", "aborted"}

\* `options?.maxQueueSize ?? ... : 1000`
DefaultMaxQueueSize == 1000

\* `new Error('LoadBalancer requires at least one geocoder provider')`
NoProviderPlainError == "Error: LoadBalancer requires at least one geocoder provider"

\* `new Error(`Queue full: exceeded maximum size of ${this.maxQueueSize}`)`
QueueFullPlainError == "Error: Queue full: exceeded maximum size"

\* the classes of errors/index.ts
QueueFullError == "QueueFullError"
NoProvidersError == "NoProvidersError"

\* `err.message.includes('timeout')`
MessageHasTimeout(e) == e \in {"TimeoutError: Promise timed out"}

InitLB ==
    /\ lb = "new"
    /\ lbArg = NoList
    /\ lbError = "none"
    /\ nprov = 0
    /\ maxQueue = 0
    /\ lbPending = <<>>
    /\ lbStats = [totalRequests |-> 0, timeouts |-> 0, queueFull |-> 0]
    /\ lreqs = <<>>

Providers == 0..(nprov - 1)

\* a guard that lets every list through
AcceptsAnyList(geos) == FALSE

\* `!geocoders || geocoders.length === 0`
NoProviders(geos) == geos = NoList \/ geos = 0

\* new LoadBalancer(geocoders, { maxQueueSize })
LBConstruct(geos, maxq) ==
    /\ lb = "new"
    /\ lbArg' = geos
    /\ IF NoProviders(geos)
       THEN /\ lb' = "failed"
            /\ lbError' = NoProviderPlainError
            /\ UNCHANGED <<nprov, maxQueue, lbPending>>
       ELSE /\ lb' = "ready"
            /\ nprov' = geos
            /\ maxQueue' = maxq
            /\ lbPending' = [i \in 0..(geos - 1) |-> 0]
            /\ UNCHANGED lbError
    /\ UNCHANGED <<lbStats, lreqs, cacheVars, fbVars, thVars, rlVars, ftVars>>

\* the peers of provider i taken from the end of the list
PeerSeqReversed(i, n) == [k \in 1..(n - 1) |-> IF n - k - 1 < i THEN n - k - 1 ELSE n - k]

\* the peers of provider i in list order: `geocoders.filter((_, j) => j !== i)`
PeerSeq(i, n) == [k \in 1..(n - 1) |-> IF k - 1 < i THEN k - 1 ELSE k]

\* the order in which the Fallback chain built by
\* `.reduce((mem, geo) => new Fallback(mem, geo), geocoder)` consults providers
Chain(i, n) == <<i>> \o PeerSeq(i, n)

\* queue.size: with concurrency Infinity and autoStart a job starts as soon
\* as it is added, so none is ever left waiting
QueueSize(i) == 0

\* `queue.size + queue.pending`
Load(i) == QueueSize(i) + lbPending[i]

\* a comparison that also replaces the best provider on a tie
PrefersLater(currentLoad, bestLoad) == currentLoad <= bestLoad

\* `currentLoad < bestLoad ? current : best`
Prefers(currentLoad, bestLoad) == currentLoad < bestLoad

\* this.providers.reduce(...): without an initial value the fold starts
\* with provider 0 as best and visits providers 1..n-1 in order
RECURSIVE ReduceBest(_, _)
ReduceBest(best, k) ==
    IF k >= nprov THEN best
    ELSE ReduceBest(IF Prefers(Load(k), Load(best)) THEN k ELSE best, k + 1)

SelectProvider == ReduceBest(0, 1)

\* an admission test that never rejects
NeverFull(currentLoad, maxq) == FALSE

\* an admission test that lets one request more through
IsFullBeyond(currentLoad, maxq) == currentLoad > maxq

\* `currentLoad >= this.maxQueueSize`
IsFull(currentLoad, maxq) == currentLoad >= maxq

\* a refusal that is not counted
QueueFullUncounted(stats) == stats

\* `this.stats.queueFull++`
QueueFullCounted(stats) == [stats EXCEPT !.queueFull = @ + 1]

\* a call that hands every provider the options of the first request
LbInvocationSharedOptions(g, args, sig) ==
    [g |-> g, q |-> args.q, opts |-> 1, aborted |-> Aborted(sig)]

\* one entry of a request's log: provider g is called with args while the
\* caller's signal is in state sig
LbInvocation(g, args, sig) ==
    [g |-> g, q |-> args.q, opts |-> args.opts, aborted |-> Aborted(sig)]

\* LoadBalancer.search up to `await provider.queue.add(...)`: count, select,
\* admit or reject; an admitted job starts at once and PQueue runs
\* `options.signal?.throwIfAborted()` before it calls the provider
LBSearchEffect(q, sig) ==
    /\ lb = "ready"
    /\ LET r == Len(lreqs) + 1
           opts == r
           i == SelectProvider
           base == [q |-> q, opts |-> opts, sig |-> sig, routed |-> i, pos |-> 0,
                    chain |-> "idle", log |-> <<>>, last |-> NoOutcome,
                    pc |-> "done", outcome |-> NoOutcome]
       IN  IF IsFull(Load(i), maxQueue)
           THEN /\ lbStats' = QueueFullCounted([lbStats EXCEPT !.totalRequests = @ + 1])
                /\ lreqs' = Append(lreqs, [base EXCEPT !.routed = 0 - 1,
                                                      !.outcome = Error(QueueFullPlainError)])
                /\ UNCHANGED lbPending
           ELSE IF Aborted(sig)
           THEN /\ lbStats' = [lbStats EXCEPT !.totalRequests = @ + 1]
                /\ lreqs' = Append(lreqs, [base EXCEPT !.outcome = Error(AbortError)])
                /\ UNCHANGED lbPending
           ELSE /\ lbStats' = [lbStats EXCEPT !.totalRequests = @ + 1]
                /\ lreqs' = Append(lreqs,
                       [base EXCEPT !.pc = "running", !.pos = 1, !.chain = "active",
                                    !.log = <<LbInvocation(i, SearchArgs(q, opts), sig)>>])
                /\ lbPending' = [lbPending EXCEPT ![i] = @ + 1]
    /\ UNCHANGED <<lb, lbArg, lbError, nprov, maxQueue>>

LBSearch(q, sig) ==
    /\ Len(lreqs) < MaxLbCalls
    /\ LBSearchEffect(q, sig)
    /\ UNCHANGED <<cacheVars, fbVars, thVars, rlVars, ftVars>>

\* a job that settles without giving its slot back
LbReleaseLeaking(r, o) ==
    /\ lbPending' = lbPending
    /\ lbStats' = IF o.kind = "error" /\ MessageHasTimeout(o.val)
                  THEN [lbStats EXCEPT !.timeouts = @ + 2]
                  ELSE lbStats

\* the job of request r settles with outcome o: the finally-block of the
\* PQueue job releases the slot; when the job rejects, the queue's 'error'
\* listener and the catch-block of LoadBalancer.search each count an error
\* whose message mentions a timeout
LbRelease(r, o) ==
    /\ lbPending' = [lbPending EXCEPT ![lreqs[r].routed] = @ - 1]
    /\ lbStats' = IF o.kind = "error" /\ MessageHasTimeout(o.val)
                  THEN [lbStats EXCEPT !.timeouts = @ + 2]
                  ELSE lbStats

\* the provider consulted for request r resolves: the enclosing Fallback
\* returns an Address and calls the next peer on null; the last provider's
\* result is the result of the chain
LBProviderResolveEffect(r, v) ==
    /\ lreqs[r].chain = "active"
    /\ LET ch == Chain(lreqs[r].routed, nprov)
           k == lreqs[r].pos
       IN  IF FallsBack(v) /\ k < Len(ch)
           THEN /\ lreqs' = [lreqs EXCEPT ![r].pos = k + 1, ![r].last = Value(v),
                       ![r].log = Append(@, LbInvocation(ch[k + 1],
                                     SearchArgs(lreqs[r].q, lreqs[r].opts), lreqs[r].sig))]
                /\ UNCHANGED <<lbPending, lbStats>>
           ELSE /\ IF lreqs[r].pc = "running"
                   THEN /\ LbRelease(r, Value(v))
                        /\ lreqs' = [lreqs EXCEPT ![r].pc = "done", ![r].outcome = Value(v),
                                                  ![r].chain = "finished",
                                                  ![r].last = Value(v)]
                   ELSE /\ lreqs' = [lreqs EXCEPT ![r].chain = "finished",
                                                  ![r].last = Value(v)]
                        /\ UNCHANGED <<lbPending, lbStats>>
    /\ UNCHANGED <<lb, lbArg, lbError, nprov, maxQueue>>

LBProviderResolve(r, v) ==
    LBProviderResolveEffect(r, v) /\ UNCHANGED <<cacheVars, fbVars, thVars, rlVars, ftVars>>

\* the provider consulted for request r rejects: no Fallback of the chain
\* handles a rejection, so the job rejects with the provider's error
LBProviderRejectEffect(r, e) ==
    /\ lreqs[r].chain = "active"
    /\ IF lreqs[r].pc = "running"
       THEN /\ LbRelease(r, Error(e))
            /\ lreqs' = [lreqs EXCEPT ![r].pc = "done", ![r].outcome = Error(e),
                                      ![r].chain = "finished", ![r].last = Error(e)]
       ELSE /\ lreqs' = [lreqs EXCEPT ![r].chain = "finished", ![r].last = Error(e)]
            /\ UNCHANGED <<lbPending, lbStats>>
    /\ UNCHANGED <<lb, lbArg, lbError, nprov, maxQueue>>

LBProviderReject(r, e) ==
    LBProviderRejectEffect(r, e) /\ UNCHANGED <<cacheVars, fbVars, thVars, rlVars, ftVars>>

\* a timeout that answers the caller and keeps the job's slot
LBTimeoutKeepingSlot(r) ==
    /\ lreqs[r].pc = "running"
    /\ lreqs' = [lreqs EXCEPT ![r].pc = "done", ![r].outcome = Value(UNDEFINED)]
    /\ UNCHANGED <<lb, lbArg, lbError, nprov, maxQueue, lbPending, lbStats>>

\* the queue's per-job timeout (this.timeoutMs) expires before the chain
\* settles: the queue is created without throwOnTimeout, so PQueue resolves
\* the promise of queue.add with undefined; the chain itself keeps running
LBTimeoutEffect(r) ==
    /\ lreqs[r].pc = "running"
    /\ LbRelease(r, Value(UNDEFINED))
    /\ lreqs' = [lreqs EXCEPT ![r].pc = "done", ![r].outcome = Value(UNDEFINED)]
    /\ UNCHANGED <<lb, lbArg, lbError, nprov, maxQueue>>

LBTimeout(r) == LBTimeoutEffect(r) /\ UNCHANGED <<cacheVars, fbVars, thVars, rlVars, ftVars>>

\* the caller fires the signal passed to queue.add: PQueue's abort race
\* rejects the job; the chain itself keeps running
LBAbort(r) ==
    /\ lreqs[r].pc = "running"
    /\ lreqs[r].sig = "live"
    /\ LbRelease(r, Error(AbortError))
    /\ lreqs' = [lreqs EXCEPT ![r].sig = "aborted", ![r].pc = "done",
                              ![r].outcome = Error(AbortError)]
    /\ UNCHANGED <<lb, lbArg, lbError, nprov, maxQueue, cacheVars, fbVars, thVars, rlVars, ftVars>>

NextLB ==
    \/ \E geos \in GeocoderLists, maxq \in {MaxQueueSize, DefaultMaxQueueSize} :
           LBConstruct(geos, maxq)
    \/ \E q \in LbQueries, sig \in LbSignals : LBSearch(q, sig)
    \/ \E r \in LbIds, v \in LbResults : LBProviderResolve(r, v)
    \/ \E r \in LbIds, e \in ProviderErrors : LBProviderReject(r, e)
    \/ \E r \in LbIds : LBTimeout(r)
    \/ \E r \in LbIds : LBAbort(r)

\* ------------------------------------------------------------------------
\* Throttler
\* ------------------------------------------------------------------------
ThIds == 1..Len(treqs)

\* Throttler.search never inspects the query, it only hands it on
ThQueries == {"q1"}

\* `new Error('Request aborted')`
RequestAbortedPlainError == "Error: Request aborted"

InitThrottler ==
    /\ tConc = 0
    /\ tQueue = <<>>
    /\ tPending = 0
    /\ treqs = <<>>

\* new Throttler(geocoder, { concurrency })
ThrottlerConstruct(c) ==
    /\ tConc = 0
    /\ tConc' = c
    /\ UNCHANGED <<tQueue, tPending, treqs, cacheVars, fbVars, lbVars, rlVars, ftVars>>

\* a job that calls the wrapped geocoder without looking at the signal
RunJobUnchecked(req, r) ==
    [req EXCEPT !.pc = "running", !.up = "running", !.trail = Append(@, "running"),
                !.log = Append(@, Invocation("wrapped", r,
                                             SearchArgs(req.q, req.opts), req.sig))]

\* the job of request r as PQueue runs it once dequeued: with the signal
\* fired `options.signal?.throwIfAborted()` rejects it before the function
\* handed to queue.add is called; otherwise that function re-checks the
\* signal and calls the wrapped geocoder
RunJob(req, r) ==
    IF Aborted(req.sig)
    THEN [req EXCEPT !.pc = "done", !.outcome = Error(AbortError),
                     !.trail = Append(@, "done")]
    ELSE [req EXCEPT !.pc = "running", !.up = "running", !.trail = Append(@, "running"),
                     !.log = Append(@, Invocation("wrapped", r,
                                                  SearchArgs(req.q, req.opts), req.sig))]

\* the number of jobs at the head of queue qu whose signal has fired
RECURSIVE AbortedPrefix(_, _)
AbortedPrefix(reqs, qu) ==
    IF qu = <<>> \/ ~Aborted(reqs[Head(qu)].sig)
    THEN 0
    ELSE 1 + AbortedPrefix(reqs, Tail(qu))

\* PQueue's `this.#pending < this.#concurrency`
ConcurrencyAllows(pend, conc) == pend < conc

\* a queue that starts its head job and leaves it in the queue
StartWithoutDequeue(reqs, qu, pend) ==
    IF ~ConcurrencyAllows(pend, tConc) \/ qu = <<>>
    THEN [reqs |-> reqs, queue |-> qu, pending |-> pend]
    ELSE [reqs |-> [r \in DOMAIN reqs |->
                      IF r = Head(qu) THEN RunJob(reqs[r], r) ELSE reqs[r]],
          queue |-> qu,
          pending |-> pend + 1]

\* PQueue's #tryToStartAnother with pend jobs running: while the concurrency
\* allows it, dequeue and run the head job; a job rejected by throwIfAborted
\* ends at once and lets the next one be tried
TryToStartAnother(reqs, qu, pend) ==
    IF ~ConcurrencyAllows(pend, tConc) \/ qu = <<>>
    THEN [reqs |-> reqs, queue |-> qu, pending |-> pend]
    ELSE LET k == AbortedPrefix(reqs, qu)
             rest == SubSeq(qu, k + 1, Len(qu))
             ran == {qu[i] : i \in 1..k} \cup (IF rest = <<>> THEN {} ELSE {Head(rest)})
         IN  [reqs |-> [r \in DOMAIN reqs |->
                          IF r \in ran THEN RunJob(reqs[r], r) ELSE reqs[r]],
              queue |-> IF rest = <<>> THEN <<>> ELSE Tail(rest),
              pending |-> IF rest = <<>> THEN pend ELSE pend + 1]

\* Throttler.search: the abort check before queueing, then queue.add, which
\* enqueues the job and tries to start one
ThrottlerSearch(q, sig) ==
    /\ tConc > 0
    /\ Len(treqs) < MaxThCalls
    /\ LET r == Len(treqs) + 1
           req == [q |-> q, opts |-> r, sig |-> sig, pc |-> "queued", up |-> "none",
                   res |-> NoOutcome, log |-> <<>>, trail |-> <<"queued">>,
                   waited |-> FALSE, outcome |-> NoOutcome]
           next == TryToStartAnother(Append(treqs, req), Append(tQueue, r), tPending)
       IN  IF Aborted(sig)
           THEN /\ treqs' = Append(treqs, [req EXCEPT !.pc = "done", !.trail = <<"done">>,
                                 !.outcome = Error(RequestAbortedPlainError)])
                /\ UNCHANGED <<tQueue, tPending>>
           ELSE /\ treqs' = [next.reqs EXCEPT ![r].waited = (next.reqs[r].pc = "queued")]
                /\ tQueue' = next.queue
                /\ tPending' = next.pending
    /\ UNCHANGED <<tConc, cacheVars, fbVars, lbVars, rlVars, ftVars>>

\* a job that ends without giving its slot back
JobEndsKeepingSlot(reqs, r, o) ==
    /\ treqs' = [reqs EXCEPT ![r].pc = "done", ![r].outcome = o,
                             ![r].trail = Append(@, "done")]
    /\ UNCHANGED <<tQueue, tPending>>

\* a job that gives its slot back and starts no waiting job
JobEndsWithoutNext(reqs, r, o) ==
    /\ treqs' = [reqs EXCEPT ![r].pc = "done", ![r].outcome = o,
                             ![r].trail = Append(@, "done")]
    /\ tPending' = tPending - 1
    /\ UNCHANGED tQueue

\* the job of request r ends with outcome o, which settles the promise of
\* queue.add, and PQueue's #next releases the slot and tries another job
JobEnds(reqs, r, o) ==
    LET next == TryToStartAnother([reqs EXCEPT ![r].pc = "done", ![r].outcome = o,
                                                ![r].trail = Append(@, "done")],
                                  tQueue, tPending - 1)
    IN  /\ treqs' = next.reqs
        /\ tQueue' = next.queue
        /\ tPending' = next.pending

\* the call of the wrapped geocoder made for request r settles; the job is
\* still awaiting it unless the abort race has ended the job before
ThrottlerSettle(r, o) ==
    /\ treqs[r].up = "running"
    /\ IF treqs[r].pc = "running"
       THEN JobEnds([treqs EXCEPT ![r].up = "settled", ![r].res = o], r, o)
       ELSE /\ treqs' = [treqs EXCEPT ![r].up = "settled", ![r].res = o]
            /\ UNCHANGED <<tQueue, tPending>>
    /\ UNCHANGED <<tConc, cacheVars, fbVars, lbVars, rlVars, ftVars>>

\* the caller fires the AbortSignal it passed to a search still in progress:
\* a waiting job stays in the queue; a running job loses PQueue's race
\* against the signal and ends, while the wrapped geocoder's call goes on
ThrottlerAbort(r) ==
    /\ treqs[r].pc # "done"
    /\ treqs[r].sig = "live"
    /\ IF treqs[r].pc = "running"
       THEN JobEnds([treqs EXCEPT ![r].sig = "aborted"], r, Error(AbortError))
       ELSE /\ treqs' = [treqs EXCEPT ![r].sig = "aborted"]
            /\ UNCHANGED <<tQueue, tPending>>
    /\ UNCHANGED <<tConc, cacheVars, fbVars, lbVars, rlVars, ftVars>>

\* the call of the wrapped geocoder made for request r settles, with
\* whatever outcome
WrappedSettles(r) == r \in ThIds /\ \E o \in Outcomes : ThrottlerSettle(r, o)

NextThrottler ==
    \/ \E c \in 1..MaxConcurrency : ThrottlerConstruct(c)
    \/ \E q \in ThQueries, sig \in LbSignals : ThrottlerSearch(q, sig)
    \/ \E r \in ThIds, o \in Outcomes : ThrottlerSettle(r, o)
    \/ \E r \in ThIds : ThrottlerAbort(r)

\* ------------------------------------------------------------------------
\* Cache over LoadBalancer: new Cache(new LoadBalancer(geocoders), ...)
\* ------------------------------------------------------------------------
\* The wrapped geocoder of the Cache is the LoadBalancer, so upstream call u
\* of the Cache is request u of the LoadBalancer.  The queue limit is left
\* at its default, no caller cancels and the store does not fail.

\* the call continues past the cache and the pending registry
StartsUpstream(c) ==
    ~IsHit(calls[c].cached) /\ PendingGet(pending, calls[c].q) = 0

\* Cache.search after the lookup; `this.geocoder.search(q, options)` is
\* LoadBalancer.search
StackGetReturn(c) ==
    /\ CacheGetReturnEffect(c)
    /\ IF StartsUpstream(c)
       THEN LBSearchEffect(calls[c].q, calls[c].sig)
       ELSE UNCHANGED lbVars
    /\ UNCHANGED <<fbVars, thVars, rlVars, ftVars>>

\* when this step settles the promise of LoadBalancer.search for request r,
\* the Cache's then-callback runs on a value and is skipped on an error
StackSettle(r) ==
    IF lreqs[r].pc = "running" /\ lreqs'[r].pc = "done"
    THEN IF lreqs'[r].outcome.kind = "value"
         THEN UpstreamResolveEffect(r, lreqs'[r].outcome.val)
         ELSE UpstreamRejectEffect(r, lreqs'[r].outcome.val)
    ELSE UNCHANGED cacheVars

StackProviderResolve(r, v) ==
    LBProviderResolveEffect(r, v) /\ StackSettle(r) /\ UNCHANGED <<fbVars, thVars, rlVars, ftVars>>

StackProviderReject(r, e) ==
    LBProviderRejectEffect(r, e) /\ StackSettle(r) /\ UNCHANGED <<fbVars, thVars, rlVars, ftVars>>

StackTimeout(r) ==
    LBTimeoutEffect(r) /\ StackSettle(r) /\ UNCHANGED <<fbVars, thVars, rlVars, ftVars>>

NextStack ==
    \/ \E geos \in 1..MaxProviders : LBConstruct(geos, DefaultMaxQueueSize)
    \/ \E q \in Queries : lb = "ready" /\ CacheSearch(q, "live")
    \/ \E c \in CallIds : CacheGetRead(c)
    \/ \E c \in CallIds : StackGetReturn(c)
    \/ \E r \in LbIds, v \in LbResults : StackProviderResolve(r, v)
    \/ \E r \in LbIds, e \in ProviderErrors : StackProviderReject(r, e)
    \/ \E r \in LbIds : StackTimeout(r)
    \/ \E u \in UpIds : UpstreamFinally(u)
    \/ \E w \in writes : CacheSetComplete(w)

\* ------------------------------------------------------------------------
\* Rate limiter of the HTTP front door (createApp, onRequest hook)
\* ------------------------------------------------------------------------
RlIds == 1..Len(rlReqs)

\* `req.headers['x-forwarded-for'] || String(req.ip || 'unknown')`
RlKeys == {"10.0.0.1", "10.0.0.2"}

\* rlMax before createApp has run
NoLimiter == 0 - 1

\* parseWindow(timeWindow), in ticks of the clock
WindowMs == 2

InitRL ==
    /\ rlMax = NoLimiter
    /\ rlStore = [k \in RlKeys |-> [count |-> 0, reset |-> 0]]
    /\ rlNow = 0
    /\ rlReqs = <<>>

\* createApp({ rateLimit: { max } })
CreateApp(max) ==
    /\ rlMax = NoLimiter
    /\ rlMax' = max
    /\ UNCHANGED <<rlStore, rlNow, rlReqs, cacheVars, fbVars, lbVars, thVars, ftVars>>

\* `!entry || now > entry.reset`
IsFresh(entry, now) == entry.count = 0 \/ now > entry.reset

\* the onRequest hook for a request of client `key`: open a new window with
\* count 1, or count the request and answer 429 once the count exceeds max
OnRequest(key) ==
    /\ rlMax # NoLimiter
    /\ Len(rlReqs) < MaxRequests
    /\ LET entry == rlStore[key]
           fresh == IsFresh(entry, rlNow)
           count == IF fresh THEN 1 ELSE entry.count + 1
           reset == IF fresh THEN rlNow + WindowMs ELSE entry.reset
           answer == IF ~fresh /\ count > rlMax THEN "429" ELSE "passed"
       IN  /\ rlStore' = [rlStore EXCEPT ![key] = [count |-> count, reset |-> reset]]
           /\ rlReqs' = Append(rlReqs, [key |-> key, at |-> rlNow, count |-> count,
                                        answer |-> answer])
    /\ UNCHANGED <<rlMax, rlNow, cacheVars, fbVars, lbVars, thVars, ftVars>>

\* the clock advances
Tick ==
    /\ rlNow < MaxTime
    /\ rlNow' = rlNow + 1
    /\ UNCHANGED <<rlMax, rlStore, rlReqs, cacheVars, fbVars, lbVars, thVars, ftVars>>

NextRL ==
    \/ \E max \in 0..MaxRate : CreateApp(max)
    \/ \E key \in RlKeys : OnRequest(key)
    \/ Tick

\* ------------------------------------------------------------------------
\* Fetch helper (helpers/fetch.ts over fetch-retry)
\* ------------------------------------------------------------------------
\* `retries: 3`
Retries == 3

\* what one attempt ends in: a network error or a response with a status
NetworkError == [error |-> TRUE, status |-> 0]
Response(st) == [error |-> FALSE, status |-> st]
Statuses == {200, 400, 404, 418, 429, 500, 503}
AttemptResults == {NetworkError} \cup {Response(st) : st \in Statuses}

\* ftOutcome while the helper's promise is unsettled
NoResponse == Response(0)

InitFetch ==
    /\ ftPc = "idle"
    /\ ftTried = <<>>
    /\ ftOutcome = NoResponse

\* the helper is called: fetch-retry makes attempt 0
FetchCall ==
    /\ ftPc = "idle"
    /\ ftPc' = "fetching"
    /\ UNCHANGED <<ftTried, ftOutcome, cacheVars, fbVars, lbVars, thVars, rlVars>>

\* `retryOn: (_, error, response) => error != null ||
\*     (response && /^(418|429|5\d{2})$/.test(String(response.status))) || false`:
\* the attempt number is not looked at
RetryOn(attempt, res) ==
    res.error \/ res.status \in {418, 429} \/ res.status \in 500..599

\* an attempt ends: given a function as retryOn, fetch-retry asks it alone
\* whether to retry (the `retries` option is used only without one) and
\* otherwise settles with the response or the error
AttemptSettles(res) ==
    /\ ftPc = "fetching"
    /\ Len(ftTried) < MaxAttempts
    /\ ftTried' = Append(ftTried, res)
    /\ IF RetryOn(Len(ftTried), res)
       THEN ftPc' = "waiting" /\ UNCHANGED ftOutcome
       ELSE ftPc' = "done" /\ ftOutcome' = res
    /\ UNCHANGED <<cacheVars, fbVars, lbVars, thVars, rlVars>>

\* the retry delay is over: fetch-retry makes the next attempt
RetryTimer ==
    /\ ftPc = "waiting"
    /\ ftPc' = "fetching"
    /\ UNCHANGED <<ftTried, ftOutcome, cacheVars, fbVars, lbVars, thVars, rlVars>>

NextFetch ==
    \/ FetchCall
    \/ \E res \in AttemptResults : AttemptSettles(res)
    \/ RetryTimer

\* ------------------------------------------------------------------------
\* Specifications
\* ------------------------------------------------------------------------

Init == InitCache /\ InitFallback /\ InitLB /\ InitThrottler /\ InitRL /\ InitFetch

\* the Cache over an arbitrary wrapped geocoder
SpecCache == Init /\ [][NextCache]_vars

\* a Fallback over two arbitrary geocoders
SpecFallback == Init /\ [][NextFallback]_vars

\* a LoadBalancer over arbitrary providers
SpecLB == Init /\ [][NextLB]_vars

\* the Throttler alone
SpecThrottler == Init /\ [][NextThrottler]_vars

\* the Throttler when every call of the wrapped geocoder eventually settles
SpecThrottlerFair ==
    SpecThrottler /\ \A r \in 1..MaxThCalls : WF_vars(WrappedSettles(r))

\* a Cache over a LoadBalancer over arbitrary providers
SpecStack == Init /\ [][NextStack]_vars

\* the rate limiter under arbitrary clients and clock
SpecRL == Init /\ [][NextRL]_vars

\* one call of the fetch helper against an arbitrary server
SpecFetch == Init /\ [][NextFetch]_vars

\* ------------------------------------------------------------------------
\* Properties of the Cache
\* ------------------------------------------------------------------------
\* a call that passed the early abort check and reached the cache lookup
Admitted(c) == ~(calls[c].pc = "done" /\ calls[c].cached = "unread")

\* the call's cache lookup failed
ReadFailed(c) == calls[c].cached = "failed"

\* c2 was issued while c1, an earlier call for the same query, was unsettled
Concurrent(c1, c2) ==
    /\ c1 < c2
    /\ calls[c1].q = calls[c2].q
    /\ c1 \in calls[c2].open

\* c2 was issued after c1, an earlier call for the same query, had settled
Sequential(c1, c2) ==
    /\ c1 < c2
    /\ calls[c1].q = calls[c2].q
    /\ c1 \notin calls[c2].open

BothDone(c1, c2) == calls[c1].pc = "done" /\ calls[c2].pc = "done"

\* C1: calls of Cache.search with the same query, each issued before the
\* earlier ones resolved, cause one upstream call between them (never one
\* each) and settle with the same result or the same error (store reads
\* that fail are left aside).
C1_Dedup ==
    \A c1, c2 \in CallIds :
        (Concurrent(c1, c2) /\ Admitted(c2) /\ ~ReadFailed(c1) /\ ~ReadFailed(c2)) =>
            /\ ~(calls[c1].started /\ calls[c2].started)
            /\ BothDone(c1, c2) => calls[c1].outcome = calls[c2].outcome

\* the upstream calls for q that have started and whose promise chain
\* (then-callback, finally-callback) has not run to its end
Outstanding(q) == {u \in UpIds : ups[u].q = q /\ ups[u].state # "done"}

\* C2: in every reachable state there is at most one outstanding upstream
\* call per query.
C2_AtMostOneUpstream == \A q \in Queries : Cardinality(Outstanding(q)) <= 1

\* C2 witness: two callers await the same running upstream call while a
\* cache write of another upstream call is still in flight
C2_Witness ==
    \E c1, c2 \in CallIds :
        /\ c1 # c2
        /\ calls[c1].pc = "await" /\ calls[c2].pc = "await"
        /\ calls[c1].promise = calls[c2].promise
        /\ ups[calls[c1].promise].state = "running"

\* C3: a call that resolved through an upstream call (no cancellation),
\* followed by a second call for the same query issued after it resolved:
\* the second call starts no upstream call and returns the same result.
C3_SequentialRepeat ==
    \A c1, c2 \in CallIds :
        ( /\ Sequential(c1, c2)
          /\ calls[c1].started
          /\ calls[c1].outcome.kind = "value"
          /\ ~Aborted(calls[c1].sig)
          /\ Admitted(c2) /\ ~Aborted(calls[c2].sig) /\ ~ReadFailed(c2) ) =>
            /\ ~calls[c2].started
            /\ calls[c2].pc = "done" => calls[c2].outcome = calls[c1].outcome

\* the call has continued past `await this.cache.get`
LookedUp(c) == calls[c].pc \in {"await", "done"} /\ calls[c].cached # "unread"

\* C4: a lookup that finds the negative sentinel returns null, one that
\* finds an Address returns that Address, both without an upstream call;
\* only an absent entry lets the search go upstream.
C4_LookupCases ==
    \A c \in CallIds :
        LookedUp(c) =>
            /\ calls[c].cached = JsFalse =>
                   calls[c].outcome = Value(NULL) /\ calls[c].promise = 0
            /\ calls[c].cached \in Addresses =>
                   calls[c].outcome = Value(calls[c].cached) /\ calls[c].promise = 0
            /\ calls[c].promise # 0 => calls[c].cached = UNDEFINED

\* a step that issues a new Cache.search call, and that call
IsCacheSearchStep == Len(calls') = Len(calls) + 1
NewCall == calls'[Len(calls')]

\* the call was refused by the early abort check
RefusedEarly(call) == call.pc = "done" /\ call.cached = "unread"

\* C11: Cache.search called with an already-cancelled token fails at once
\* with RequestAbortedError: no cache read, no change to the pending
\* registry, no call to the wrapped geocoder, then or later.
C11_EarlyAbort ==
    [][ /\ (IsCacheSearchStep /\ NewCall.sig = "aborted") =>
              /\ RefusedEarly(NewCall)
              /\ NewCall.outcome = Error(RequestAbortedError)
              /\ NewCall.promise = 0 /\ ~NewCall.started
              /\ UNCHANGED <<store, pending, ups, writes>>
        /\ \A c \in CallIds : RefusedEarly(calls[c]) => calls'[c] = calls[c]
      ]_vars

\* C11 witness: a call was refused by the early abort check while an
\* upstream call for the same query was registered as pending
C11_Witness ==
    \E c \in CallIds :
        /\ RefusedEarly(calls[c])
        /\ calls[c].outcome = Error(RequestAbortedError)
        /\ pending[calls[c].q] # 0

\* C12: a caller whose token fires after the upstream call has started and
\* before it resolves receives RequestAbortedError from Cache.search, not
\* the upstream result.
C12_CancelledCallerRejected ==
    \A c \in CallIds :
        (calls[c].firedAt = "inflight" /\ calls[c].pc = "done") =>
            calls[c].outcome = Error(RequestAbortedError)

\* C13: when callers share one in-flight upstream call and one of them
\* cancels after it started, every other caller, whose own token never
\* fired, is not failed with a cancellation or abort error.
C13_OthersUnaffected ==
    \A c1, c2 \in CallIds :
        ( /\ c1 # c2
          /\ calls[c1].promise # 0 /\ calls[c1].promise = calls[c2].promise
          /\ calls[c1].firedAt = "inflight"
          /\ calls[c2].firedAt = "never"
          /\ calls[c2].pc = "done" ) =>
            calls[c2].outcome \notin {Error(AbortError), Error(RequestAbortedError)}

\* the call that started upstream call u
Owner(u) == calls[ups[u].owner]

\* C36: when an upstream call shared by several callers resolves, its
\* result is written exactly when the token of the caller that started it
\* has not fired; the tokens of the callers that joined it play no part.
C36_OwnerTokenDecides ==
    [][\A u \in UpIds :
          ( /\ ups[u].state = "running" /\ ups'[u].state = "settled"
            /\ ups'[u].outcome.kind = "value" ) =>
              /\ (\E w \in writes' \ writes : w.u = u) <=> Owner(u).sig = "live"
              /\ \A w \in writes' \ writes : w.u = u
      ]_vars

\* C36 witness: a caller that joined the upstream call fired its token while
\* the call was in flight, the starting caller did not, and the result was
\* handed to the store
C36_Witness ==
    \E u \in UpIds, c \in CallIds :
        /\ c # ups[u].owner /\ calls[c].promise = u
        /\ calls[c].firedAt = "inflight"
        /\ Owner(u).sig = "live"
        /\ \E w \in writes : w.u = u

C15_UpstreamFailure ==
    /\ \A c \in CallIds :
          ( /\ calls[c].promise # 0
            /\ ups[calls[c].promise].state = "done"
            /\ ups[calls[c].promise].outcome.kind = "error" ) =>
              /\ calls[c].pc = "done"
              /\ calls[c].outcome = ups[calls[c].promise].outcome
    /\ \A w \in writes : ups[w.u].outcome.kind = "value"

\* C15 witness: two callers were failed with the error of the one upstream
\* call they shared, and the store has no entry for the query
C15_Witness ==
    \E c1, c2 \in CallIds :
        /\ c1 # c2
        /\ calls[c1].promise # 0 /\ calls[c1].promise = calls[c2].promise
        /\ calls[c1].pc = "done" /\ calls[c2].pc = "done"
        /\ calls[c1].outcome = Error("ProviderError")
        /\ calls[c2].outcome = Error("ProviderError")
        /\ store[calls[c1].q] = UNDEFINED

\* C16: the pending registry holds an entry for a query exactly while an
\* upstream call for that query is outstanding (started, its promise chain
\* not yet run to the end), and the entry is that call's promise; once every
\* call has settled the registry is empty.
C16_PendingRegistry ==
    /\ \A q \in Queries :
          IF Outstanding(q) = {}
          THEN pending[q] = 0
          ELSE Outstanding(q) = {pending[q]}
    /\ (\A c \in CallIds : calls[c].pc = "done") =>
          \A q \in Queries : pending[q] = 0

\* C16 witness: an upstream call that failed has been removed from the
\* registry while, for the other query, one that resolved is still in it
C16_Witness ==
    \E u1, u2 \in UpIds :
        /\ ups[u1].state = "done" /\ ups[u1].outcome.kind = "error"
        /\ pending[ups[u1].q] = 0
        /\ ups[u2].state = "settled" /\ ups[u2].outcome.kind = "value"
        /\ pending[ups[u2].q] = u2

\* C17: a failure of the cache store, on read as well as on write, is never
\* thrown to the caller of Cache.search: no call settles with the store's
\* error, and a call whose read failed goes upstream as after a miss.
C17_StoreFailureAbsorbed ==
    \A c \in CallIds :
        /\ calls[c].outcome # Error(StoreError)
        /\ (ReadFailed(c) /\ calls[c].pc = "done") =>
              calls[c].promise # 0 /\ calls[c].outcome = ups[calls[c].promise].outcome

\* C28: the write issued after a resolved miss is fire-and-forget: once the
\* upstream call has settled, the promise returned to the callers can settle
\* whatever the state of the write (in flight, completed, failed), and a
\* caller served by an upstream call receives exactly what that call
\* settled to, which no write changes afterwards.
C28_FireAndForget ==
    /\ \A u \in UpIds : ups[u].state = "settled" => ENABLED UpstreamFinally(u)
    /\ \A c \in CallIds :
          (calls[c].pc = "done" /\ calls[c].promise # 0) =>
              calls[c].outcome = ups[calls[c].promise].outcome

\* C28 witness: a caller has received the Address of its upstream call while
\* the write of that Address is still in flight
C28_Witness ==
    \E c \in CallIds, w \in writes :
        /\ calls[c].pc = "done" /\ calls[c].promise = w.u
        /\ calls[c].outcome = Value(w.val)
        /\ store[w.q] = UNDEFINED

\* ------------------------------------------------------------------------
\* Properties of the Fallback
\* ------------------------------------------------------------------------
\* the log entries of the calls made to geocoder g on behalf of call c
CallsTo(g, c) == {i \in 1..Len(fcalls[c].log) : fcalls[c].log[i].g = g}

\* every call made to geocoder g for c carried c's own query and options
SameArgs(g, c) ==
    \A i \in CallsTo(g, c) :
        fcalls[c].log[i].q = fcalls[c].q /\ fcalls[c].log[i].opts = fcalls[c].opts

\* C5: when the primary rejects, the secondary is called exactly once with
\* the same query and the search settles as the secondary does, so the
\* primary's error never reaches the caller.
C5_FallbackOnError ==
    \A c \in FbIds :
        fcalls[c].presult.kind = "error" =>
            /\ Cardinality(CallsTo("secondary", c)) = 1
            /\ SameArgs("secondary", c)
            /\ fcalls[c].outcome = fcalls[c].sresult

\* C6: when the primary resolves to an Address, the search returns exactly
\* that Address and the secondary is never called.
C6_PrimaryWins ==
    \A c \in FbIds :
        (fcalls[c].presult.kind = "value" /\ fcalls[c].presult.val \in Addresses) =>
            /\ fcalls[c].pc = "done"
            /\ fcalls[c].outcome = fcalls[c].presult
            /\ CallsTo("secondary", c) = {}

\* C6 witness: a search settled with the Address its primary resolved to
C6_Witness ==
    \E c \in FbIds :
        /\ fcalls[c].presult.kind = "value" /\ fcalls[c].presult.val \in Addresses
        /\ fcalls[c].pc = "done"

\* C7: when the primary resolves to null, the secondary is called exactly
\* once, with the same query and the same options, and the search settles
\* as the secondary does (null when both are null); the secondary is never
\* called before the primary has settled.
C7_FallbackOnNull ==
    \A c \in FbIds :
        /\ CallsTo("secondary", c) # {} => fcalls[c].presult # NoOutcome
        /\ fcalls[c].presult = Value(NULL) =>
            /\ Cardinality(CallsTo("secondary", c)) = 1
            /\ SameArgs("secondary", c)
            /\ fcalls[c].outcome = fcalls[c].sresult
            /\ fcalls[c].sresult = Value(NULL) => fcalls[c].outcome = Value(NULL)

\* C7 witness: both geocoders resolved to null and the search, made with an
\* options object, returned null
C7_Witness ==
    \E c \in FbIds :
        /\ fcalls[c].opts # 0
        /\ fcalls[c].presult = Value(NULL)
        /\ fcalls[c].sresult = Value(NULL)
        /\ fcalls[c].pc = "done"

\* ------------------------------------------------------------------------
\* Properties of the LoadBalancer
\* ------------------------------------------------------------------------
\* this step is a call of LoadBalancer.search
IsSearchStep == Len(lreqs') = Len(lreqs) + 1

\* the request the search step created
NewRequest == lreqs'[Len(lreqs')]

\* the request was refused admission
Rejected(r) == r.routed = NoList

\* C8: a search is routed to the provider whose load, at the moment of the
\* call, is lowest, the lowest index winning a tie; without a small queue
\* limit every search is routed.  So with two providers of equal load the
\* request goes to provider 0, and while only provider 0 has an unsettled
\* request the next one goes to provider 1.
C8_Routing ==
    [][IsSearchStep =>
          /\ maxQueue = DefaultMaxQueueSize => ~Rejected(NewRequest)
          /\ ~Rejected(NewRequest) =>
                /\ \A j \in Providers :
                      \/ Load(NewRequest.routed) < Load(j)
                      \/ Load(NewRequest.routed) = Load(j) /\ NewRequest.routed <= j
                /\ (nprov = 2 /\ Load(0) = Load(1)) => NewRequest.routed = 0
                /\ (nprov = 2 /\ Load(0) > 0 /\ Load(1) = 0) => NewRequest.routed = 1
      ]_vars

\* C8 witness: a request was routed to provider 1 while the request routed
\* to provider 0 is still unsettled
C8_Witness ==
    \E r1, r2 \in LbIds :
        /\ r1 < r2
        /\ lreqs[r1].routed = 0 /\ lreqs[r1].pc = "running"
        /\ lreqs[r2].routed = 1

C18_ThrottlerEarlyAbort ==
    [][(Len(treqs') = Len(treqs) + 1 /\ treqs'[Len(treqs')].sig = "aborted") =>
          /\ treqs'[Len(treqs')].outcome = Error(RequestAbortedError)
          /\ treqs'[Len(treqs')].log = <<>>
          /\ UNCHANGED <<tQueue, tPending>>
      ]_vars

C20_ConcurrencyBound ==
    tConc > 0 => Cardinality({r \in ThIds : treqs[r].up = "running"}) <= tConc

\* ------------------------------------------------------------------------
\* Properties of the decorators together
\* ------------------------------------------------------------------------
\* C21: for every decorator, a search called with a token that has already
\* fired never calls the wrapped geocoder: the first call a search makes to
\* a wrapped geocoder is never made under a fired token (Fallback,
\* LoadBalancer, Throttler), and a Cache call refused by the early check
\* has started no upstream call.
C21_NoCallWhenCancelled ==
    /\ \A c \in FbIds : fcalls[c].log # <<>> => ~fcalls[c].log[1].aborted
    /\ \A r \in LbIds : lreqs[r].log # <<>> => ~lreqs[r].log[1].aborted
    /\ \A r \in ThIds : treqs[r].log # <<>> => ~treqs[r].log[1].aborted
    /\ \A c \in CallIds : RefusedEarly(calls[c]) => calls[c].promise = 0

\* C22: once a write of an Address for a query has completed, the Address
\* stored for that query never changes, whatever Cache.search calls follow
\* and whatever upstream calls were in flight when the write completed.
C22_StoredAddressStable ==
    [][\A q \in Queries : store[q] \in Addresses => store'[q] = store[q]]_vars

\* C23: a LoadBalancer request routed to provider i calls provider i first
\* and, each time the provider called last resolved to null, the next peer
\* j # i in ascending index order; it calls no provider twice; when it
\* resolves to an Address that is the result of the provider called last
\* (all earlier ones having resolved to null), and when it resolves to null
\* every provider has been called and the last one resolved to null.
C23_FallbackChain ==
    \A r \in LbIds :
        LET req == lreqs[r]
            n == Len(req.log)
        IN  /\ n > 0 => req.log[1].g = req.routed
            /\ \A k \in 2..n :
                  /\ req.log[k].g \in Providers \ {req.routed}
                  /\ k > 2 => req.log[k - 1].g < req.log[k].g
                  /\ \A j \in Providers \ {req.routed} :
                        j < req.log[k].g => \E m \in 2..(k - 1) : req.log[m].g = j
            /\ \A k1, k2 \in 1..n : k1 # k2 => req.log[k1].g # req.log[k2].g
            /\ (req.chain = "active" /\ n > 1) => req.last = Value(NULL)
            /\ (req.outcome.kind = "value" /\ req.outcome.val \in Addresses) =>
                  req.chain = "finished" /\ req.last = req.outcome
            /\ req.outcome = Value(NULL) => n = nprov /\ req.last = Value(NULL)

\* C23 witness: a request routed to provider 1 of three called providers
\* 1, 0 and 2 in that order and resolved to the Address provider 2 found
C23_Witness ==
    \E r \in LbIds :
        /\ nprov = 3 /\ lreqs[r].routed = 1
        /\ Len(lreqs[r].log) = 3
        /\ lreqs[r].log[2].g = 0 /\ lreqs[r].log[3].g = 2
        /\ lreqs[r].pc = "done"
        /\ lreqs[r].outcome.kind = "value" /\ lreqs[r].outcome.val \in Addresses

\* every provider was called for request r and the last one, as all those
\* before it, resolved to null
AllNull(r) ==
    /\ Len(lreqs[r].log) = nprov
    /\ lreqs[r].chain = "finished"
    /\ lreqs[r].last = Value(NULL)

C25_ErrorsPassThrough ==
    /\ \A r \in ThIds :
          (treqs[r].res.kind = "error" /\ ~Aborted(treqs[r].sig)) =>
              treqs[r].pc = "done" /\ treqs[r].outcome = treqs[r].res
    /\ tPending = Cardinality({r \in ThIds : treqs[r].pc = "running"})
    /\ tQueue # <<>> => tPending >= tConc

\* C25 witness: under concurrency 1 a request failed with the wrapped
\* geocoder's error and a later request was run to its end
C25_Witness ==
    \E r1, r2 \in ThIds :
        /\ tConc = 1 /\ r1 < r2
        /\ treqs[r1].outcome = Error("ProviderError")
        /\ treqs[r1].res = Error("ProviderError")
        /\ treqs[r2].res # NoOutcome
        /\ treqs[r2].pc = "done"

\* ------------------------------------------------------------------------
\* Properties of the rate limiter
\* ------------------------------------------------------------------------
\* the earlier requests of the client of request i
Earlier(i) == {j \in 1..(i - 1) : rlReqs[j].key = rlReqs[i].key}

\* the time at which the window of request i opened: a client's first
\* request opens a window, which lasts until its reset time has passed
RECURSIVE WindowOf(_)
WindowOf(i) ==
    IF Earlier(i) = {} THEN rlReqs[i].at
    ELSE LET j == CHOOSE k \in Earlier(i) : \A m \in Earlier(i) : m <= k
         IN  IF rlReqs[i].at > WindowOf(j) + WindowMs THEN rlReqs[i].at ELSE WindowOf(j)

\* the rank of request i among its client's requests of the same window
RankInWindow(i) ==
    Cardinality({j \in 1..i : rlReqs[j].key = rlReqs[i].key /\ WindowOf(j) = WindowOf(i)})

\* C26: for each client key, the first max requests of a window pass and
\* every further request of that window is answered 429; the count of a
\* request is its rank in its window, so it restarts at 1 once the reset
\* time has passed.
C26_RateLimit ==
    \A i \in RlIds :
        /\ rlReqs[i].answer = IF RankInWindow(i) <= rlMax THEN "passed" ELSE "429"
        /\ rlReqs[i].count = RankInWindow(i)

\* ------------------------------------------------------------------------
\* Properties of the fetch helper
\* ------------------------------------------------------------------------
\* the attempt ended in a network error or a status 418, 429 or 5xx
Transient(res) == res.error \/ res.status \in {418, 429} \/ res.status \in 500..599

\* C27: the fetch helper makes a further attempt only after an attempt that
\* ended in a network error or a status 418, 429 or 5xx, makes at most 3
\* retries (4 attempts), and settles with the first response of any other
\* status without retrying.
C27_RetryPolicy ==
    /\ Len(ftTried) <= 1 + Retries
    /\ \A k \in 1..(Len(ftTried) - 1) : Transient(ftTried[k])
    /\ (ftTried # <<>> /\ ~Transient(ftTried[Len(ftTried)])) =>
          ftPc = "done" /\ ftOutcome = ftTried[Len(ftTried)]

\* C29: every Throttler request is placed on the queue, then run, then
\* settled, each stage at most once: the wrapped geocoder is called only
\* for a request that was queued and then started, even when it is started
\* in the very call that queued it, and at most once per request.  The only
\* shorter paths are those of cancelled requests: refused before queueing,
\* or rejected on being dequeued without having run.
C29_QueuedThenRunning ==
    \A r \in ThIds :
        LET t == treqs[r].trail
        IN  /\ t \in {<<"queued">>, <<"queued", "running">>,
                      <<"queued", "running", "done">>, <<"queued", "done">>, <<"done">>}
            /\ Len(treqs[r].log) <= 1
            /\ treqs[r].log # <<>> <=> (Len(t) >= 2 /\ t[2] = "running")
            /\ t \in {<<"queued", "done">>, <<"done">>} =>
                  /\ Aborted(treqs[r].sig)
                  /\ treqs[r].outcome \in {Error(AbortError), Error(RequestAbortedPlainError)}

\* C29 witness: a request issued while the queue was empty and a slot free
\* went through the queue, ran and was resolved
C29_Witness ==
    /\ tConc = 2 /\ Len(treqs) = 1
    /\ treqs[1].trail = <<"queued", "running", "done">>
    /\ treqs[1].outcome.kind = "value"

\* every request issued so far has been settled for its caller
AllSettled == \A r \in LbIds : lreqs[r].pc = "done"

\* C30: a search issued when every earlier request has been settled for its
\* caller is admitted and routed to provider 0, which is the first provider
\* called for it unless the caller's signal was already fired; a request
\* routed to provider 0 calls another provider only after the provider
\* consulted before it answered with no Address.
C30_SequentialRouting ==
    [][/\ (IsSearchStep /\ AllSettled) =>
             /\ NewRequest.routed = 0
             /\ \/ NewRequest.log = <<>> /\ Aborted(NewRequest.sig)
                \/ Len(NewRequest.log) = 1 /\ NewRequest.log[1].g = 0
       /\ \A r \in LbIds :
             (lreqs[r].routed = 0 /\ Len(lreqs'[r].log) > Len(lreqs[r].log)) =>
                 /\ lreqs'[r].log[Len(lreqs'[r].log)].g # 0
                 /\ lreqs'[r].last.kind = "value"
                 /\ FallsBack(lreqs'[r].last.val)
      ]_vars

\* C30 witness: with several providers, two requests were each answered by
\* provider 0 with an Address, no other provider being called
C30_Witness ==
    /\ nprov >= 2 /\ Len(lreqs) = 2
    /\ \A r \in LbIds :
          /\ lreqs[r].routed = 0
          /\ lreqs[r].outcome = Value("addr1")
          /\ Len(lreqs[r].log) = 1 /\ lreqs[r].log[1].g = 0

\* C31: no provider's load (queue size + pending) ever exceeds the maximum
\* queue size of the LoadBalancer, whatever the interleaving of searches,
\* provider answers, timeouts and cancellations.
C31_LoadBound == lb = "ready" => \A i \in Providers : Load(i) <= maxQueue

\* C31 witness: with a small limit every provider is loaded up to the limit
\* while requests are still unsettled
C31_Witness ==
    /\ lb = "ready" /\ maxQueue = MaxQueueSize /\ nprov >= 2
    /\ \A i \in Providers : Load(i) = maxQueue
    /\ \E r \in LbIds : lreqs[r].pc = "running"

\* the requests routed to provider i whose queue job has not settled
Unsettled(i) == {r \in LbIds : lreqs[r].routed = i /\ lreqs[r].pc = "running"}

\* C32: a provider's load equals the number of requests routed to it that
\* have not settled yet (admission adds one; a result, a rejection, a
\* timeout or a cancellation takes one away), so when every request has
\* settled every load is 0.
C32_LoadAccounting ==
    lb = "ready" =>
        /\ \A i \in Providers : Load(i) = Cardinality(Unsettled(i))
        /\ AllSettled => \A i \in Providers : Load(i) = 0

\* C32 witness: two admitted requests have settled, one by a timeout and
\* one by a provider's rejection, and every load is back to 0
C32_Witness ==
    /\ lb = "ready" /\ Len(lreqs) = 2 /\ AllSettled
    /\ \A r \in LbIds : ~Rejected(lreqs[r]) /\ lreqs[r].log # <<>>
    /\ \E r \in LbIds : lreqs[r].outcome = Value(UNDEFINED)
    /\ \E r \in LbIds : lreqs[r].outcome.kind = "error" /\ lreqs[r].sig = "live"
    /\ \A i \in Providers : Load(i) = 0

\* C33: a search refused for a full queue is not retried or routed again:
\* the refusing step leaves every provider's load as it was, hands the
\* caller an error, calls no provider and adds exactly one to the queueFull
\* counter; no later step touches the refused request.
C33_QueueFullIsFinal ==
    [][/\ (IsSearchStep /\ Rejected(NewRequest)) =>
             /\ lbPending' = lbPending
             /\ NewRequest.pc = "done"
             /\ NewRequest.outcome.kind = "error"
             /\ NewRequest.log = <<>>
             /\ lbStats'.queueFull = lbStats.queueFull + 1
             /\ lbStats'.timeouts = lbStats.timeouts
       /\ \A r \in LbIds : Rejected(lreqs[r]) => lreqs'[r] = lreqs[r]
       /\ ~(IsSearchStep /\ Rejected(NewRequest)) => lbStats'.queueFull = lbStats.queueFull
      ]_vars

\* C33 witness: a search was refused while the request that fills the queue
\* is still unsettled, and the refusal was counted once
C33_Witness ==
    /\ lbStats.queueFull = 1
    /\ \E r1, r2 \in LbIds :
          /\ r1 < r2
          /\ lreqs[r1].pc = "running"
          /\ Rejected(lreqs[r2]) /\ lreqs[r2].outcome = Error(QueueFullPlainError)
    /\ \A i \in Providers : Load(i) = maxQueue

\* the requests that ended in a queue timeout: the only way a request
\* settles with undefined, as no provider answers undefined
TimedOut == {r \in LbIds : lreqs[r].pc = "done" /\ lreqs[r].outcome = Value(UNDEFINED)}

\* C34: the counters of the LoadBalancer tell what happened: totalRequests is
\* the number of searches made, queueFull the number of searches refused for
\* a full queue, and timeouts the number of requests that ended in a queue
\* timeout, each counted once.
C34_Counters ==
    lb = "ready" =>
        /\ lbStats.totalRequests = Len(lreqs)
        /\ lbStats.queueFull = Cardinality({r \in LbIds : Rejected(lreqs[r])})
        /\ lbStats.timeouts = Cardinality(TimedOut)

\* the two counters that are kept as the claim says
C34_RequestCounters ==
    lb = "ready" =>
        /\ lbStats.totalRequests = Len(lreqs)
        /\ lbStats.queueFull = Cardinality({r \in LbIds : Rejected(lreqs[r])})

\* C35: every provider call made for a LoadBalancer request, to the routed
\* provider and to each peer consulted after it, carries the query and the
\* options object (the signal with it) of that request's caller.
C35_ArgumentsPassedOn ==
    \A r \in LbIds : \A k \in DOMAIN lreqs[r].log :
        /\ lreqs[r].log[k].q = lreqs[r].q
        /\ lreqs[r].log[k].opts = lreqs[r].opts
        /\ lreqs[r].log[k].opts = r
        /\ lreqs[r].log[k].aborted => Aborted(lreqs[r].sig)

\* C35 witness: the second request called its routed provider and then a
\* peer, each with its own query and options
C35_Witness ==
    /\ Len(lreqs) = 2
    /\ Len(lreqs[2].log) >= 2
    /\ lreqs[2].log[1].g = lreqs[2].routed
    /\ lreqs[2].log[2].g # lreqs[2].routed
    /\ \A k \in DOMAIN lreqs[2].log : lreqs[2].log[k].opts = 2

\* request r has settled, having been started unless its token fired
SettledAfterStart(r) ==
    /\ r \in ThIds
    /\ treqs[r].pc = "done"
    /\ treqs[r].log # <<>> \/ Aborted(treqs[r].sig)

\* C37: provided every call of the wrapped geocoder eventually settles,
\* every request made of the Throttler eventually settles, and unless its
\* token fired it was started before: no request waits for ever.
C37_ThrottlerLiveness ==
    \A r \in 1..MaxThCalls : (r \in ThIds) ~> SettledAfterStart(r)

\* C37 witness: a request that was left waiting because every slot was
\* taken, and whose token never fired, was started and resolved
C37_Witness ==
    \E r \in ThIds :
        /\ treqs[r].waited /\ treqs[r].sig = "live"
        /\ treqs[r].trail = <<"queued", "running", "done">>
        /\ treqs[r].outcome.kind = "value"

\* the queue timeout of request r fires in this step: the request settles
\* for its caller while its chain is still at work and its token is live
QueueTimeoutFires(r) ==
    /\ lreqs[r].pc = "running" /\ lreqs'[r].pc = "done"
    /\ lreqs'[r].chain = "active"
    /\ lreqs'[r].sig = "live"

====
